---- MODULE Spec2Model ----
(***************************************************************************)
(* Order processing of acacia-reads: the resolvers AddOrder.mutate and     *)
(* UpdateOrder.mutate (src/app/gql/order/mutations.py) running as          *)
(* concurrent invocations against one relational store.                    *)
(*                                                                         *)
(* The store is the committed content of the tables books, orders and      *)
(* order_items.  Every invocation opens its own session (SessionLocal,     *)
(* autoflush=False, expire_on_commit=False): what a session loads is a     *)
(* private copy, what it changes is pending until session.commit(), and    *)
(* the unit of work writes a changed column as an absolute value           *)
(* (UPDATE books SET stock_count = <value in the session>).  No isolation  *)
(* level and no row lock is configured, so a read sees what is committed   *)
(* at the moment of the statement.  The code between two awaits runs       *)
(* without interruption (one event loop) and touches the session only, so  *)
(* an action is a stretch of code that ends with a store round trip or     *)
(* with the end of the invocation.                                         *)
(*                                                                         *)
(* No code under src/ creates the tables, so whether the store accepts a   *)
(* statement is the store's answer: flush, commit and refresh either       *)
(* succeed or raise, and the resolvers' except clauses handle both.        *)
(*                                                                         *)
(* Spec      the resolver bodies, run with current_user bound             *)
(* SpecRace  the same bodies on the scenario "stock 5, two orders of 3"    *)
(* SpecGate  the resolvers as the schema exposes them, behind the          *)
(*           decorator logged_in_user (src/app/utils/utils.py)             *)
(* SpecTwice one caller after the other: place_order, then the same        *)
(*           update_order twice                                            *)
(* SpecTrace one caller after the other: place_order of 3, update_order    *)
(*           to 5, update_order to the empty list, on a stock of 10        *)
(***************************************************************************)
EXTENDS Integers, Sequences, FiniteSets, TLC

\* ------------------------------------------------------------------ bounds
MaxCalls == 2      \* resolver invocations in one behaviour
MaxLen == 2        \* items in one request
MaxQty == 2        \* largest quantity asked for
StockB1 == 2       \* books.stock_count of b1 at the start
StockB2 == 1       \* books.stock_count of b2 at the start
RaceStock == 5     \* SpecRace: books.stock_count of b1 at the start
RaceQty == 3       \* SpecRace: the quantity each order asks for
SeqCalls == 3      \* SpecTwice, SpecTrace: calls made one after the other
TraceStock == 10   \* SpecTrace: books.stock_count of b1 at the start
TraceQty == 3      \* SpecTrace: the quantity the order is placed with
TraceRaised == 5   \* SpecTrace: the quantity the first update asks for
InitPrice == 1     \* books.price of every book at the start
MaxPrice == 2      \* the largest price update_book sets
MaxRestock == 2    \* the largest stock_count update_book sets

Procs == {"p1", "p2"}           \* concurrent invocations (asyncio tasks)
Users == {"u1", "u2"}           \* rows of users (user_id, and the email of the token)
Books == {"b1", "b2"}           \* rows of books
BookIds == Books \cup {"b9"}    \* 22-character ids a request can name; b9 has no row
OrderIds == 1 .. MaxCalls       \* ids an order can get (shortuuid: fresh, never reused)

NULL == "NULL"                  \* a column or argument nobody set

\* users at the start: u1 is a customer, u2 an administrator (users.role).
InitUsers == [u \in Users |-> IF u = "u2" THEN "ADMIN" ELSE "USER"]
EmptyMap == [x \in {} |-> 0]

\* ------------------------------------------------------------------ requests
\* OrderItemInput: book_id and quantity, both required.
OrderItemInput == [book_id : BookIds, quantity : 0 .. MaxQty]

OrderItemLists == UNION {[1 .. n -> OrderItemInput] : n \in 0 .. MaxLen}

\* A variant of the item schema with quantity ge=0: what C16 must tell from gt=0.
OrderItemSchema_AllowZero(item) == item.quantity >= 0

\* OrderItemSchema: quantity gt=0 (book_id: every id of BookIds has 22 characters).
OrderItemSchema(item) == item.quantity > 0

\* A variant of OrderSchema that lets every list through: what C28 must tell from the
\* validation of each item.
OrderSchema_Unvalidated(order_items) == TRUE

\* OrderSchema(order_items=...): a list of OrderItemSchema, nothing else is checked.
OrderSchema(order_items) ==
    \A i \in 1 .. Len(order_items) : OrderItemSchema(order_items[i])

\* book_ids = [item.book_id for item in validated_order_data.order_items]
RequestedBookIds(order_items) ==
    {order_items[i].book_id : i \in 1 .. Len(order_items)}

\* ------------------------------------------------------------------ state
VARIABLES
    stock_count,   \* committed books.stock_count, by book_id
    orders,        \* committed rows of orders, by order_id: [user_id, order_status]
    order_items,   \* committed rows of order_items
    next_order_id, \* the next fresh order_id
    next_item_id,  \* the sequence behind order_items.order_item_id
    pc,            \* where each invocation stands
    call,          \* the arguments of each invocation
    session,       \* each invocation's session: loaded copies and pending changes
    result,        \* what each invocation gave its caller
    ncalls,        \* invocations started so far, by process
    users,         \* committed rows of users, by user_id: the role
    price          \* committed books.price, by book_id

vars == <<stock_count, orders, order_items, next_order_id, next_item_id,
          pc, call, session, result, ncalls, users, price>>

Store == <<stock_count, orders, order_items>>

NoCall ==
    [op |-> "none", credential |-> NULL, current_user |-> NULL,
     order_id |-> 0, order_items |-> <<>>]

\* A session that holds nothing (SessionLocal() just opened, or closed).
NoSession ==
    [order_id       |-> 0,         \* the Order this session works on
     new_order      |-> FALSE,     \* the Order row is an INSERT of this transaction
     books_map      |-> EmptyMap,  \* book_id -> stock_count of the loaded Book
     books_loaded   |-> EmptyMap,  \* book_id -> stock_count as it was loaded
     items_loaded   |-> {},        \* OrderItem rows in the identity map, as first loaded
     existing_items |-> EmptyMap,  \* book_id -> [order_item_id, quantity]
     added          |-> <<>>,      \* pending OrderItem INSERTs
     deleted        |-> {},        \* order_item_id of pending DELETEs
     new_price      |-> EmptyMap,  \* book_id -> price, a pending UPDATE of books.price
     user           |-> NULL,      \* the User this session deletes
     orders_loaded  |-> {},        \* order_id of the loaded orders of that User
     error          |-> "ok",      \* the GraphQLError the item loop raised, if any
     detail         |-> [book_id |-> NULL, requested |-> 0, available |-> 0]]

NoDetail == [book_id |-> NULL, requested |-> 0, available |-> 0]

\* What the caller of a resolver gets: the mutation (op) it ran, the outcome, for a
\* committed one the order as session.refresh loaded it, for a GraphQLError about a
\* book the numbers its message carries.
NoResult ==
    [op |-> "none", outcome |-> "none", order_id |-> 0, order_items |-> {},
     detail |-> NoDetail]

Failure(op, kind, detail) ==
    [op |-> op, outcome |-> kind, order_id |-> 0, order_items |-> {}, detail |-> detail]

StoreErrors == {"IntegrityError", "UnexpectedError"}

TotalCalls == ncalls["p1"] + ncalls["p2"]

InitWith(stock) ==
    /\ stock_count = stock
    /\ orders = EmptyMap
    /\ order_items = {}
    /\ next_order_id = 1
    /\ next_item_id = 1
    /\ pc = [p \in Procs |-> "idle"]
    /\ call = [p \in Procs |-> NoCall]
    /\ session = [p \in Procs |-> NoSession]
    /\ result = [p \in Procs |-> NoResult]
    /\ ncalls = [p \in Procs |-> 0]
    /\ users = InitUsers
    /\ price = [b \in Books |-> InitPrice]

InitStock == [b \in Books |-> IF b = "b1" THEN StockB1 ELSE StockB2]

Init == InitWith(InitStock)

\* The invocation of p ends: the session is closed (async with), the arguments are
\* gone, the caller gets r.
Return(p, r) ==
    /\ pc' = [pc EXCEPT ![p] = "done"]
    /\ call' = [call EXCEPT ![p] = NoCall]
    /\ session' = [session EXCEPT ![p] = NoSession]
    /\ result' = [result EXCEPT ![p] = r]

\* A caller starts an invocation on p.
Invoke(p) ==
    /\ pc[p] \in {"idle", "done"}
    /\ TotalCalls < MaxCalls
    /\ ncalls' = [ncalls EXCEPT ![p] = @ + 1]
    /\ UNCHANGED <<users, price>>

\* select(Book).filter(Book.book_id.in_(book_ids)): the rows that exist, as committed now.
SelectBooks(book_ids) == [b \in book_ids \cap Books |-> stock_count[b]]

\* A variant of the select of an order's items that has no filter on order_id: what
\* C30 must tell from the select of the target order's rows.
ItemsOfOrder_AnyOrder(order_id) == order_items

\* The rows of order_items of one order, as committed now.
ItemsOfOrder(order_id) == {r \in order_items : r.order_id = order_id}

\* ------------------------------------------------------------------ AddOrder.mutate
\* Lines 69-81: OrderSchema, then the session and the bulk select of the books.
AddOrder_Mutate(p, current_user, items) ==
    IF ~OrderSchema(items)
    THEN Return(p, Failure("add", "ValidationError", NoDetail))
    ELSE /\ pc' = [pc EXCEPT ![p] = "add_validate"]
         /\ call' = [call EXCEPT ![p] =
                [op |-> "add", credential |-> NULL, current_user |-> current_user,
                 order_id |-> 0, order_items |-> items]]
         /\ session' = [session EXCEPT ![p] =
                [NoSession EXCEPT !.books_map = SelectBooks(RequestedBookIds(items)),
                                  !.books_loaded = SelectBooks(RequestedBookIds(items))]]
         /\ result' = [result EXCEPT ![p] = NoResult]

\* mutate(root, info, order_items, current_user) called with all its arguments.
AddOrder_Call(p, current_user, items) ==
    /\ Invoke(p)
    /\ AddOrder_Mutate(p, current_user, items)
    /\ UNCHANGED <<stock_count, orders, order_items, next_order_id, next_item_id>>

\* A variant of the stock check that looks at one item only, the first: what C6 must
\* tell from the check of lines 84-93.
ValidateStock_FirstItem(items, books_map, i) ==
    IF i > Len(items) THEN [error |-> "ok", detail |-> NoDetail]
    ELSE IF items[i].book_id \notin DOMAIN books_map
    THEN [error |-> "BookNotFound",
          detail |-> [book_id |-> items[i].book_id, requested |-> 0, available |-> 0]]
    ELSE IF books_map[items[i].book_id] < items[i].quantity
    THEN [error |-> "InsufficientStock",
          detail |-> [book_id |-> items[i].book_id,
                      requested |-> items[i].quantity,
                      available |-> books_map[items[i].book_id]]]
    ELSE [error |-> "ok", detail |-> NoDetail]

\* Lines 84-93: every item against the loaded books, in request order; the first
\* that fails raises, with the numbers of its message.
RECURSIVE ValidateStock(_, _, _)
ValidateStock(items, books_map, i) ==
    IF i > Len(items) THEN [error |-> "ok", detail |-> NoDetail]
    ELSE IF items[i].book_id \notin DOMAIN books_map
    THEN [error |-> "BookNotFound",
          detail |-> [book_id |-> items[i].book_id, requested |-> 0, available |-> 0]]
    ELSE IF books_map[items[i].book_id] < items[i].quantity
    THEN [error |-> "InsufficientStock",
          detail |-> [book_id |-> items[i].book_id,
                      requested |-> items[i].quantity,
                      available |-> books_map[items[i].book_id]]]
    ELSE ValidateStock(items, books_map, i + 1)

\* A variant of the check that creates and commits the Order first and validates the
\* stock after: what C3 must tell from a check that precedes every write.
AddOrder_Validate_OrderFirst(p) ==
    /\ pc[p] = "add_validate"
    /\ LET v == ValidateStock(call[p].order_items, session[p].books_map, 1)
       IN  IF v.error = "ok"
           THEN /\ pc' = [pc EXCEPT ![p] = "add_flush"]
                /\ UNCHANGED <<call, session, result, orders, next_order_id>>
           ELSE /\ Return(p, Failure("add", v.error, v.detail))
                /\ orders' = [o \in DOMAIN orders \cup {next_order_id} |->
                                 IF o = next_order_id
                                 THEN [user_id |-> call[p].current_user,
                                       order_status |-> NULL]
                                 ELSE orders[o]]
                /\ next_order_id' = next_order_id + 1
    /\ UNCHANGED <<stock_count, order_items, next_item_id, ncalls, users, price>>

AddOrder_Validate(p) ==
    /\ pc[p] = "add_validate"
    /\ LET v == ValidateStock(call[p].order_items, session[p].books_map, 1)
       IN  IF v.error = "ok"
           THEN /\ pc' = [pc EXCEPT ![p] = "add_flush"]
                /\ UNCHANGED <<call, session, result>>
           ELSE Return(p, Failure("add", v.error, v.detail))
    /\ UNCHANGED <<stock_count, orders, order_items, next_order_id, next_item_id, ncalls, users, price>>

\* Lines 97-99: Order(user_id=current_user.user_id), session.add, session.flush.  The
\* INSERT runs inside the open transaction: the row is not committed.
AddOrder_Flush(p) ==
    /\ pc[p] = "add_flush"
    /\ pc' = [pc EXCEPT ![p] = "add_items"]
    /\ session' = [session EXCEPT ![p].order_id = next_order_id, ![p].new_order = TRUE]
    /\ next_order_id' = next_order_id + 1
    /\ UNCHANGED <<stock_count, orders, order_items, next_item_id, call, result, ncalls, users, price>>

\* A variant of the failure path on a store that keeps the statements it had executed
\* when it raises: what C23 must tell from a rollback of the whole transaction.
Rollback_Partial(p, error) ==
    /\ error \in StoreErrors
    /\ Return(p, Failure(call[p].op, error, NoDetail))
    /\ stock_count' = [b \in Books |->
                           IF b \in DOMAIN session[p].books_map
                           THEN session[p].books_map[b]
                           ELSE stock_count[b]]
    /\ UNCHANGED <<orders, order_items, next_order_id, next_item_id, ncalls, users, price>>

\* Lines 117-125 (AddOrder) and 236-244 (UpdateOrder): the store raised;
\* session.rollback() drops what the transaction holds and the caller gets a
\* GraphQLError.  What was committed before stays.
Rollback(p, error) ==
    /\ error \in StoreErrors
    /\ Return(p, Failure(call[p].op, error, NoDetail))
    /\ UNCHANGED <<stock_count, orders, order_items, next_order_id, next_item_id, ncalls, users, price>>

AddOrder_FlushRaises(p, error) ==
    /\ pc[p] = "add_flush"
    /\ Rollback(p, error)

\* Lines 102-110: one OrderItem per entry of the request, and the stock deducted on the
\* loaded Book.
RECURSIVE DeductStock(_, _, _)
DeductStock(items, books_map, i) ==
    IF i > Len(items) THEN books_map
    ELSE DeductStock(items,
                     [books_map EXCEPT ![items[i].book_id] = @ - items[i].quantity],
                     i + 1)

NewOrderItems(order_id, items) ==
    [i \in 1 .. Len(items) |->
        [order_id |-> order_id, book_id |-> items[i].book_id,
         quantity |-> items[i].quantity]]

AddOrder_Items(p) ==
    /\ pc[p] = "add_items"
    /\ pc' = [pc EXCEPT ![p] = "add_commit"]
    /\ session' = [session EXCEPT
           ![p].added = NewOrderItems(session[p].order_id, call[p].order_items),
           ![p].books_map = DeductStock(call[p].order_items, session[p].books_map, 1)]
    /\ UNCHANGED <<stock_count, orders, order_items, next_order_id, next_item_id,
                   call, result, ncalls, users, price>>

\* ------------------------------------------------------------------ the unit of work
\* The books whose stock_count differs from the loaded value: the UPDATEs of a flush.
DirtyBooks(s) == {b \in DOMAIN s.books_map : s.books_map[b] # s.books_loaded[b]}

\* books after the flush: each dirty book gets the session's value.
FlushBooks(s) ==
    [b \in Books |-> IF b \in DirtyBooks(s) THEN s.books_map[b] ELSE stock_count[b]]

\* The pending OrderItem INSERTs as rows: the sequence gives the ids, unit_price is
\* never assigned by the resolvers.
InsertedRows(s) ==
    {[order_item_id |-> next_item_id + i - 1,
      order_id |-> s.added[i].order_id,
      book_id |-> s.added[i].book_id,
      quantity |-> s.added[i].quantity,
      unit_price |-> NULL] : i \in 1 .. Len(s.added)}

\* The loaded OrderItems whose quantity was changed and that are not deleted.
ChangedItems(s) ==
    {e \in {s.existing_items[b] : b \in DOMAIN s.existing_items} :
        /\ e.order_item_id \notin s.deleted
        /\ \E r \in s.items_loaded :
              r.order_item_id = e.order_item_id /\ r.quantity # e.quantity}

\* An UPDATE by primary key that matches no row makes the flush raise (StaleDataError).
StaleUpdate(s) ==
    \E e \in ChangedItems(s) :
        \A r \in order_items : r.order_item_id # e.order_item_id

\* order_items after the flush: UPDATEs and DELETEs by primary key, and the INSERTs.
FlushItems(s) ==
    {IF \E e \in ChangedItems(s) : e.order_item_id = r.order_item_id
         THEN [r EXCEPT !.quantity =
                  (CHOOSE e \in ChangedItems(s) :
                      e.order_item_id = r.order_item_id).quantity]
         ELSE r : r \in {x \in order_items : x.order_item_id \notin s.deleted}}
    \cup InsertedRows(s)

\* orders after the flush: the new Order row has user_id only, order_status is never
\* assigned.
FlushOrders(p, s) ==
    IF s.new_order
    THEN [o \in DOMAIN orders \cup {s.order_id} |->
             IF o = s.order_id
             THEN [user_id |-> call[p].current_user, order_status |-> NULL]
             ELSE orders[o]]
    ELSE orders

\* A variant of the store that declares no foreign key: what C26 must tell from the
\* constraints of models.py.
ForeignKeysHold_Undeclared(us, os, its) == TRUE

\* orders.user_id -> users.user_id, order_items.order_id -> orders.order_id and
\* order_items.book_id -> books.book_id, over the rows us, os and its: what the store
\* requires of every statement.
ForeignKeysHold(us, os, its) ==
    /\ \A o \in DOMAIN os : os[o].user_id \in DOMAIN us
    /\ \A r \in its : r.order_id \in DOMAIN os /\ r.book_id \in Books

\* await session.commit(): the flush of the pending changes and the COMMIT, as one
\* step of the store.
Commit(p, next) ==
    /\ ~StaleUpdate(session[p])
    /\ ForeignKeysHold(users, FlushOrders(p, session[p]), FlushItems(session[p]))
    /\ stock_count' = FlushBooks(session[p])
    /\ order_items' = FlushItems(session[p])
    /\ orders' = FlushOrders(p, session[p])
    /\ next_item_id' = next_item_id + Len(session[p].added)
    /\ pc' = [pc EXCEPT ![p] = next]
    /\ UNCHANGED <<next_order_id, call, session, result, ncalls, users, price>>

\* await session.refresh(order) and the return: the order as committed now, with its
\* items (Order.order_items is lazy="joined").
Refresh(p) ==
    /\ Return(p, [op |-> call[p].op, outcome |-> "COMMITTED",
                  order_id |-> session[p].order_id,
                  order_items |-> ItemsOfOrder(session[p].order_id),
                  detail |-> NoDetail])
    /\ UNCHANGED <<stock_count, orders, order_items, next_order_id, next_item_id, ncalls, users, price>>

\* Line 113.
AddOrder_Commit(p) ==
    /\ pc[p] = "add_commit"
    /\ Commit(p, "add_refresh")

AddOrder_CommitRaises(p, error) ==
    /\ pc[p] = "add_commit"
    /\ Rollback(p, error)

\* Lines 114-115.
AddOrder_Refresh(p) ==
    /\ pc[p] = "add_refresh"
    /\ Refresh(p)

\* Line 114 raises: except Exception, lines 122-125.
AddOrder_RefreshRaises(p) ==
    /\ pc[p] = "add_refresh"
    /\ Rollback(p, "UnexpectedError")

\* ------------------------------------------------------------------ UpdateOrder.mutate
\* A query returns the rows as committed now, but an object the session already holds
\* keeps the attributes it was first loaded with (identity map, nothing is expired).
LoadItems(loaded, rows) ==
    loaded \cup {r \in rows : \A l \in loaded : l.order_item_id # r.order_item_id}

\* A variant of the entry of update_order that looks the order up and does not compare
\* its owner with the caller: what C14 must tell from the check of line 167.
UpdateOrder_Mutate_AnyOwner(p, current_user, order_id, items) ==
    IF ~OrderSchema(items)
    THEN Return(p, Failure("update", "ValidationError", NoDetail))
    ELSE IF order_id \notin DOMAIN orders
    THEN Return(p, Failure("update", "NotFoundOrUnauthorized", NoDetail))
    ELSE /\ pc' = [pc EXCEPT ![p] = "upd_books"]
         /\ call' = [call EXCEPT ![p] =
                [op |-> "update", credential |-> NULL, current_user |-> current_user,
                 order_id |-> order_id, order_items |-> items]]
         /\ session' = [session EXCEPT ![p] =
                [NoSession EXCEPT !.order_id = order_id,
                                  !.items_loaded = ItemsOfOrder(order_id)]]
         /\ result' = [result EXCEPT ![p] = NoResult]

\* Lines 158-168: OrderSchema, then session.get(Order, order_id) and the ownership
\* check.  Order.order_items is lazy="joined": the get loads the order's items too.
UpdateOrder_Mutate(p, current_user, order_id, items) ==
    IF ~OrderSchema(items)
    THEN Return(p, Failure("update", "ValidationError", NoDetail))
    ELSE IF order_id \notin DOMAIN orders \/ orders[order_id].user_id # current_user
    THEN Return(p, Failure("update", "NotFoundOrUnauthorized", NoDetail))
    ELSE /\ pc' = [pc EXCEPT ![p] = "upd_books"]
         /\ call' = [call EXCEPT ![p] =
                [op |-> "update", credential |-> NULL, current_user |-> current_user,
                 order_id |-> order_id, order_items |-> items]]
         /\ session' = [session EXCEPT ![p] =
                [NoSession EXCEPT !.order_id = order_id,
                                  !.items_loaded = ItemsOfOrder(order_id)]]
         /\ result' = [result EXCEPT ![p] = NoResult]

\* mutate(root, info, order_id, order_items, current_user) called with all its arguments.
UpdateOrder_Call(p, current_user, order_id, items) ==
    /\ Invoke(p)
    /\ UpdateOrder_Mutate(p, current_user, order_id, items)
    /\ UNCHANGED <<stock_count, orders, order_items, next_order_id, next_item_id>>

\* Lines 171-173: the bulk select of the requested books.  Book.order_items is
\* lazy="joined": the select loads the items of these books too.
UpdateOrder_Books(p) ==
    /\ pc[p] = "upd_books"
    /\ pc' = [pc EXCEPT ![p] = "upd_items"]
    /\ LET ids == RequestedBookIds(call[p].order_items)
       IN  session' = [session EXCEPT
               ![p].books_map = SelectBooks(ids),
               ![p].books_loaded = SelectBooks(ids),
               ![p].items_loaded =
                   LoadItems(@, {r \in order_items : r.book_id \in ids})]
    /\ UNCHANGED <<stock_count, orders, order_items, next_order_id, next_item_id,
                   call, result, ncalls, users, price>>

\* Lines 176-179: the existing items of the order keyed by book_id.  The select has no
\* ORDER BY, and the dict keeps the last row of a book: any row of the book may win.
UpdateOrder_Items(p) ==
    /\ pc[p] = "upd_items"
    /\ pc' = [pc EXCEPT ![p] = "upd_apply"]
    /\ LET loaded == LoadItems(session[p].items_loaded, ItemsOfOrder(session[p].order_id))
           rows == {l \in loaded :
                       \E r \in ItemsOfOrder(session[p].order_id) :
                           r.order_item_id = l.order_item_id}
           keys == {r.book_id : r \in rows}
       IN  \E pick \in [keys -> rows] :
               /\ \A b \in keys : pick[b].book_id = b
               /\ session' = [session EXCEPT
                      ![p].items_loaded = loaded,
                      ![p].existing_items =
                          [b \in keys |-> [order_item_id |-> pick[b].order_item_id,
                                           quantity |-> pick[b].quantity]]]
    /\ UNCHANGED <<stock_count, orders, order_items, next_order_id, next_item_id,
                   call, result, ncalls, users, price>>

\* A variant of the item loop that checks an existing item's new quantity, not its
\* difference to the existing quantity, against the stock: what C10 must tell from the
\* check of lines 195-199.
RECURSIVE UpdateItems_FullQuantity(_, _, _)
UpdateItems_FullQuantity(items, s, i) ==
    IF i > Len(items) THEN s
    ELSE LET item == items[i]
             book_id == item.book_id
         IN  IF book_id \notin DOMAIN s.books_map
             THEN [s EXCEPT !.error = "BookNotFound",
                            !.detail = [book_id |-> book_id, requested |-> 0,
                                        available |-> 0]]
             ELSE IF book_id \in DOMAIN s.existing_items
             THEN LET stock_diff == item.quantity - s.existing_items[book_id].quantity
                  IN  IF s.books_map[book_id] < item.quantity
                      THEN [s EXCEPT !.error = "InsufficientStock",
                                     !.detail = [book_id |-> book_id,
                                                 requested |-> item.quantity,
                                                 available |-> s.books_map[book_id]]]
                      ELSE UpdateItems_FullQuantity(items,
                               [s EXCEPT !.existing_items[book_id].quantity = item.quantity,
                                         !.books_map[book_id] = @ - stock_diff],
                               i + 1)
             ELSE IF s.books_map[book_id] < item.quantity
                  THEN [s EXCEPT !.error = "InsufficientStock",
                                 !.detail = [book_id |-> book_id,
                                             requested |-> item.quantity,
                                             available |-> s.books_map[book_id]]]
                  ELSE UpdateItems_FullQuantity(items,
                           [s EXCEPT !.added = Append(@, [order_id |-> s.order_id,
                                                          book_id |-> book_id,
                                                          quantity |-> item.quantity]),
                                     !.books_map[book_id] = @ - item.quantity],
                           i + 1)

\* A variant of the item loop that inserts a new item without looking at the stock:
\* what C11 must tell from the check of lines 204-208.
RECURSIVE UpdateItems_NewUnchecked(_, _, _)
UpdateItems_NewUnchecked(items, s, i) ==
    IF i > Len(items) THEN s
    ELSE LET item == items[i]
             book_id == item.book_id
         IN  IF book_id \notin DOMAIN s.books_map
             THEN [s EXCEPT !.error = "BookNotFound",
                            !.detail = [book_id |-> book_id, requested |-> 0,
                                        available |-> 0]]
             ELSE IF book_id \in DOMAIN s.existing_items
             THEN LET stock_diff == item.quantity - s.existing_items[book_id].quantity
                  IN  IF stock_diff > 0 /\ s.books_map[book_id] < stock_diff
                      THEN [s EXCEPT !.error = "InsufficientStock",
                                     !.detail = [book_id |-> book_id,
                                                 requested |-> stock_diff,
                                                 available |-> s.books_map[book_id]]]
                      ELSE UpdateItems_NewUnchecked(items,
                               [s EXCEPT !.existing_items[book_id].quantity = item.quantity,
                                         !.books_map[book_id] = @ - stock_diff],
                               i + 1)
             ELSE UpdateItems_NewUnchecked(items,
                      [s EXCEPT !.added = Append(@, [order_id |-> s.order_id,
                                                     book_id |-> book_id,
                                                     quantity |-> item.quantity]),
                                !.books_map[book_id] = @ - item.quantity],
                      i + 1)

\* Lines 186-217: the loop over the requested items, on the session s; it stops at the
\* first GraphQLError, which s.error then names.
RECURSIVE UpdateItems(_, _, _)
UpdateItems(items, s, i) ==
    IF i > Len(items) THEN s
    ELSE LET item == items[i]
             book_id == item.book_id
         IN  IF book_id \notin DOMAIN s.books_map
             THEN [s EXCEPT !.error = "BookNotFound",
                            !.detail = [book_id |-> book_id, requested |-> 0,
                                        available |-> 0]]
             ELSE IF book_id \in DOMAIN s.existing_items
             THEN LET stock_diff == item.quantity - s.existing_items[book_id].quantity
                  IN  IF stock_diff > 0 /\ s.books_map[book_id] < stock_diff
                      THEN [s EXCEPT !.error = "InsufficientStock",
                                     !.detail = [book_id |-> book_id,
                                                 requested |-> stock_diff,
                                                 available |-> s.books_map[book_id]]]
                      ELSE UpdateItems(items,
                               [s EXCEPT !.existing_items[book_id].quantity = item.quantity,
                                         !.books_map[book_id] = @ - stock_diff],
                               i + 1)
             ELSE IF s.books_map[book_id] < item.quantity
                  THEN [s EXCEPT !.error = "InsufficientStock",
                                 !.detail = [book_id |-> book_id,
                                             requested |-> item.quantity,
                                             available |-> s.books_map[book_id]]]
                  ELSE UpdateItems(items,
                           [s EXCEPT !.added = Append(@, [order_id |-> s.order_id,
                                                          book_id |-> book_id,
                                                          quantity |-> item.quantity]),
                                     !.books_map[book_id] = @ - item.quantity],
                           i + 1)

\* Lines 220-226: the existing items whose book the request did not name are deleted;
\* the stock goes back to the book only if books_map holds the book, and books_map
\* holds the requested books.
RemoveOmitted(items, s) ==
    LET processed_book_ids == RequestedBookIds(items)
        omitted == DOMAIN s.existing_items \ processed_book_ids
    IN  [s EXCEPT
            !.books_map = [b \in DOMAIN s.books_map |->
                              IF b \in omitted
                              THEN s.books_map[b] + s.existing_items[b].quantity
                              ELSE s.books_map[b]],
            !.deleted = {s.existing_items[b].order_item_id : b \in omitted}]

\* A variant of steps 4 and 5 on a session that writes each stock change through as
\* it is made: what C7 must tell from changes that stay pending until the commit.
UpdateOrder_Apply_WriteThrough(p) ==
    /\ pc[p] = "upd_apply"
    /\ LET s == UpdateItems(call[p].order_items, session[p], 1)
       IN  IF s.error = "ok"
           THEN /\ pc' = [pc EXCEPT ![p] = "upd_commit"]
                /\ session' = [session EXCEPT ![p] = RemoveOmitted(call[p].order_items, s)]
                /\ UNCHANGED <<call, result, stock_count>>
           ELSE /\ Return(p, Failure("update", s.error, s.detail))
                /\ stock_count' = FlushBooks(s)
    /\ UNCHANGED <<orders, order_items, next_order_id, next_item_id, ncalls, users, price>>

\* Lines 182-234: steps 4 and 5 in the session; a GraphQLError raised in the loop is
\* re-raised and the session is closed with nothing flushed.
UpdateOrder_Apply(p) ==
    /\ pc[p] = "upd_apply"
    /\ LET s == UpdateItems(call[p].order_items, session[p], 1)
       IN  IF s.error = "ok"
           THEN /\ pc' = [pc EXCEPT ![p] = "upd_commit"]
                /\ session' = [session EXCEPT ![p] = RemoveOmitted(call[p].order_items, s)]
                /\ UNCHANGED <<call, result>>
           ELSE Return(p, Failure("update", s.error, s.detail))
    /\ UNCHANGED <<stock_count, orders, order_items, next_order_id, next_item_id, ncalls, users, price>>

\* Line 229.
UpdateOrder_Commit(p) ==
    /\ pc[p] = "upd_commit"
    /\ Commit(p, "upd_refresh")

\* Lines 236-244: the store raised in commit, or the flush met a stale row.
UpdateOrder_CommitRaises(p, error) ==
    /\ pc[p] = "upd_commit"
    /\ Rollback(p, error)

\* Lines 230-231.
UpdateOrder_Refresh(p) ==
    /\ pc[p] = "upd_refresh"
    /\ Refresh(p)

\* Line 230 raises: except Exception, lines 241-244.
UpdateOrder_RefreshRaises(p) ==
    /\ pc[p] = "upd_refresh"
    /\ Rollback(p, "UnexpectedError")

\* ------------------------------------------------------------------ specification
\* The steps of an invocation after its call.
Step(p) ==
    \/ AddOrder_Validate(p)
    \/ AddOrder_Flush(p)
    \/ \E e \in StoreErrors : AddOrder_FlushRaises(p, e)
    \/ AddOrder_Items(p)
    \/ AddOrder_Commit(p)
    \/ \E e \in StoreErrors : AddOrder_CommitRaises(p, e)
    \/ AddOrder_Refresh(p)
    \/ AddOrder_RefreshRaises(p)
    \/ UpdateOrder_Books(p)
    \/ UpdateOrder_Items(p)
    \/ UpdateOrder_Apply(p)
    \/ UpdateOrder_Commit(p)
    \/ \E e \in StoreErrors : UpdateOrder_CommitRaises(p, e)
    \/ UpdateOrder_Refresh(p)
    \/ UpdateOrder_RefreshRaises(p)

Next ==
    \E p \in Procs :
        \/ \E u \in Users, items \in OrderItemLists : AddOrder_Call(p, u, items)
        \/ \E u \in Users, o \in OrderIds, items \in OrderItemLists :
               UpdateOrder_Call(p, u, o, items)
        \/ Step(p)

Spec == Init /\ [][Next]_vars

\* ------------------------------------------------------------------ the race scenario
\* One book with RaceStock copies, and two callers that each order RaceQty of it.
RaceRequest == <<[book_id |-> "b1", quantity |-> RaceQty]>>

InitRace == InitWith([b \in Books |-> IF b = "b1" THEN RaceStock ELSE StockB2])

\* The steps of AddOrder.mutate, the only resolver the scenario runs.
AddStep(p) ==
    \/ AddOrder_Validate(p)
    \/ AddOrder_Flush(p)
    \/ \E e \in StoreErrors : AddOrder_FlushRaises(p, e)
    \/ AddOrder_Items(p)
    \/ AddOrder_Commit(p)
    \/ \E e \in StoreErrors : AddOrder_CommitRaises(p, e)
    \/ AddOrder_Refresh(p)
    \/ AddOrder_RefreshRaises(p)

NextRace ==
    \E p \in Procs :
        \/ \E u \in Users : ncalls[p] = 0 /\ AddOrder_Call(p, u, RaceRequest)
        \/ AddStep(p)

SpecRace == InitRace /\ [][NextRace]_vars

\* ------------------------------------------------------------------ the resolvers as exposed
\* What a request can carry as its Authorization header: none, a header that is not
\* "Bearer <token>", a token whose signature or expiry fails, a token without "sub",
\* and a good token for the email of u1, of u2, or of nobody in users.
Credentials == {"none", "malformed", "expired", "invalid", "nosub", "u1", "u2", "u9"}

\* get_authenticated_user(context): the User of the token, or the GraphQLError.
GetAuthenticatedUser(credential) ==
    IF credential = "none"
    THEN [error |-> "MissingToken", user |-> NULL]
    ELSE IF credential = "malformed"
    THEN [error |-> "InvalidHeaderFormat", user |-> NULL]
    ELSE IF credential = "expired"
    THEN [error |-> "TokenExpired", user |-> NULL]
    ELSE IF credential = "invalid"
    THEN [error |-> "CouldNotAuthenticate", user |-> NULL]
    ELSE IF credential = "nosub"
    THEN [error |-> "SubjectMissing", user |-> NULL]
    ELSE IF credential \notin DOMAIN users
    THEN [error |-> "CouldNotAuthenticate", user |-> NULL]
    ELSE [error |-> "ok", user |-> credential]

\* The parameters of mutate: (root, info, order_items, current_user) for AddOrder,
\* (root, info, order_id, order_items, current_user) for UpdateOrder; none has a default.
ResolverParams(op) ==
    {"root", "info", "order_items", "current_user"}
        \cup (IF op = "update" THEN {"order_id"} ELSE {})

\* What the executor calls the field's resolver with: root, info and the arguments of
\* the mutation's Arguments class.
FieldArguments(op) ==
    {"root", "info", "order_items"} \cup (IF op = "update" THEN {"order_id"} ELSE {})

\* wrapper(*args, **kwargs) ends with func(*args, **kwargs): it passes on what it got.
WrapperPasses(op) == FieldArguments(op)

\* The parameters the call func(*args, **kwargs) leaves unbound: the call raises
\* TypeError when there is one.
MissingArguments(op) == ResolverParams(op) \ WrapperPasses(op)

\* The requests of the exposed resolvers: at most one item.
GateItemLists == {items \in OrderItemLists : Len(items) <= 1}

\* The executor calls the decorated mutate of place_order or update_order.
Resolve_Call(p, op, credential, order_id, items) ==
    /\ Invoke(p)
    /\ pc' = [pc EXCEPT ![p] = "gate"]
    /\ call' = [call EXCEPT ![p] =
           [op |-> op, credential |-> credential, current_user |-> NULL,
            order_id |-> order_id, order_items |-> items]]
    /\ result' = [result EXCEPT ![p] = NoResult]
    /\ UNCHANGED <<stock_count, orders, order_items, next_order_id, next_item_id, session>>

\* logged_in_user.wrapper: authenticate, drop the user, call the resolver.
LoggedInUser(p) ==
    /\ pc[p] = "gate"
    /\ LET auth == GetAuthenticatedUser(call[p].credential)
       IN  IF auth.error # "ok"
           THEN Return(p, Failure(call[p].op, auth.error, NoDetail))
           ELSE IF MissingArguments(call[p].op) # {}
           THEN Return(p, Failure(call[p].op, "TypeError", NoDetail))
           ELSE IF call[p].op = "add"
           THEN AddOrder_Mutate(p, auth.user, call[p].order_items)
           ELSE UpdateOrder_Mutate(p, auth.user, call[p].order_id, call[p].order_items)
    /\ UNCHANGED <<stock_count, orders, order_items, next_order_id, next_item_id, ncalls, users, price>>

NextGate ==
    \E p \in Procs :
        \/ \E c \in Credentials, items \in GateItemLists :
               Resolve_Call(p, "add", c, 0, items)
        \/ \E c \in Credentials, o \in OrderIds, items \in GateItemLists :
               Resolve_Call(p, "update", c, o, items)
        \/ LoggedInUser(p)

SpecGate == Init /\ [][NextGate]_vars

\* ------------------------------------------------------------------ calls in a row
\* Nobody is inside a resolver: the next call starts after the last one has returned.
Quiet == \A q \in Procs : pc[q] \in {"idle", "done"}

\* A caller starts the next of SeqCalls calls, the others having returned.
InvokeInARow(p) ==
    /\ Quiet
    /\ TotalCalls < SeqCalls
    /\ ncalls' = [ncalls EXCEPT ![p] = @ + 1]
    /\ UNCHANGED <<users, price>>

\* The item list that update_order is called with twice.
TwiceRequest == <<>>

\* u1 places an order.
Twice_Add(p, items) ==
    /\ TotalCalls = 0
    /\ InvokeInARow(p)
    /\ AddOrder_Mutate(p, "u1", items)
    /\ UNCHANGED <<stock_count, orders, order_items, next_order_id, next_item_id>>

\* u1 calls update_order on the order with TwiceRequest, a first and a second time.
Twice_Update(p) ==
    /\ TotalCalls > 0
    /\ InvokeInARow(p)
    /\ UpdateOrder_Mutate(p, "u1", 1, TwiceRequest)
    /\ UNCHANGED <<stock_count, orders, order_items, next_order_id, next_item_id>>

NextTwice ==
    \E p \in Procs :
        \/ \E items \in OrderItemLists : Twice_Add(p, items)
        \/ Twice_Update(p)
        \/ Step(p)

SpecTwice == Init /\ [][NextTwice]_vars

\* The calls of the scenario, in their order: place_order of TraceQty copies of b1,
\* update_order to TraceRaised copies, update_order to the empty list.
InitTrace == InitWith([b \in Books |-> IF b = "b1" THEN TraceStock ELSE StockB2])

Trace_Add(p) ==
    /\ TotalCalls = 0
    /\ InvokeInARow(p)
    /\ AddOrder_Mutate(p, "u1", <<[book_id |-> "b1", quantity |-> TraceQty]>>)
    /\ UNCHANGED <<stock_count, orders, order_items, next_order_id, next_item_id>>

Trace_Raise(p) ==
    /\ TotalCalls = 1
    /\ InvokeInARow(p)
    /\ UpdateOrder_Mutate(p, "u1", 1, <<[book_id |-> "b1", quantity |-> TraceRaised]>>)
    /\ UNCHANGED <<stock_count, orders, order_items, next_order_id, next_item_id>>

Trace_Empty(p) ==
    /\ TotalCalls = 2
    /\ InvokeInARow(p)
    /\ UpdateOrder_Mutate(p, "u1", 1, <<>>)
    /\ UNCHANGED <<stock_count, orders, order_items, next_order_id, next_item_id>>

NextTrace ==
    \E p \in Procs :
        \/ Trace_Add(p)
        \/ Trace_Raise(p)
        \/ Trace_Empty(p)
        \/ Step(p)

SpecTrace == InitTrace /\ [][NextTrace]_vars

\* ------------------------------------------------------------------ the administrator's mutations
\* validated_data of UpdateBook: the fields the request gives (exclude_none), of which
\* the model keeps stock_count and price.
FieldValues(f) == IF f = "price" THEN {-1, MaxPrice} ELSE {-1, 0, MaxRestock}

UpdateBookKwargs ==
    UNION {{k \in [d -> {-1, 0, MaxPrice, MaxRestock}] :
               \A f \in d : k[f] \in FieldValues(f)} :
           d \in SUBSET {"stock_count", "price"}}

\* The callers of update_book: nobody, the customer u1, the administrator u2.
AdminCredentials == {"none", "u1", "u2"}

\* UpdateBookSchema: stock_count and price are ge=0 when given.
UpdateBookSchema(kwargs) == \A f \in DOMAIN kwargs : kwargs[f] >= 0

\* The executor calls the decorated mutate of update_book or delete_user.
Admin_Resolve(p, op, credential, target, kwargs) ==
    /\ pc' = [pc EXCEPT ![p] = "admin_gate"]
    /\ call' = [call EXCEPT ![p] =
           [op |-> op, credential |-> credential, current_user |-> NULL,
            order_id |-> 0, order_items |-> <<>>, target |-> target, kwargs |-> kwargs]]
    /\ result' = [result EXCEPT ![p] = NoResult]
    /\ UNCHANGED <<stock_count, orders, order_items, next_order_id, next_item_id, session>>

\* UpdateBook.mutate, lines 153-184: the schema, the select of the book, and the
\* setattr of each validated field on the loaded Book.  A field set to the value it
\* has is no change.
UpdateBook_Mutate(p, book_id, kwargs) ==
    IF ~UpdateBookSchema(kwargs)
    THEN Return(p, Failure("update_book", "ValidationError", NoDetail))
    ELSE IF book_id \notin Books
    THEN Return(p, Failure("update_book", "BookNotFound", NoDetail))
    ELSE /\ pc' = [pc EXCEPT ![p] = "book_commit"]
         /\ session' = [session EXCEPT ![p] =
                [NoSession EXCEPT
                    !.books_loaded = SelectBooks({book_id}),
                    !.books_map = [b \in {book_id} |->
                                      IF "stock_count" \in DOMAIN kwargs
                                      THEN kwargs["stock_count"]
                                      ELSE stock_count[b]],
                    !.new_price = IF "price" \in DOMAIN kwargs
                                     /\ kwargs["price"] # price[book_id]
                                  THEN [b \in {book_id} |-> kwargs["price"]]
                                  ELSE EmptyMap]]
         /\ UNCHANGED <<call, result>>

\* DeleteUser.mutate, lines 199-213: the select of the user, whose orders and their
\* items come with it (lazy="joined"), the two refusals, and session.delete(user),
\* which marks the user, the loaded orders and the loaded items for deletion.
DeleteUser_Mutate(p, user_id) ==
    IF user_id \notin DOMAIN users
    THEN Return(p, Failure("delete_user", "UserNotFound", NoDetail))
    ELSE IF users[user_id] = "ADMIN"
    THEN Return(p, Failure("delete_user", "AdminNotDeletable", NoDetail))
    ELSE LET loaded == {o \in DOMAIN orders : orders[o].user_id = user_id}
         IN  /\ pc' = [pc EXCEPT ![p] = "user_commit"]
             /\ session' = [session EXCEPT ![p] =
                    [NoSession EXCEPT
                        !.user = user_id,
                        !.orders_loaded = loaded,
                        !.items_loaded = {r \in order_items : r.order_id \in loaded}]]
             /\ UNCHANGED <<call, result>>

\* admin_user.wrapper: authenticate, require the role ADMIN, call the resolver with
\* what the executor passed (these resolvers take no current_user).
AdminUser(p) ==
    /\ pc[p] = "admin_gate"
    /\ LET auth == GetAuthenticatedUser(call[p].credential)
       IN  IF auth.error # "ok"
           THEN Return(p, Failure(call[p].op, auth.error, NoDetail))
           ELSE IF users[auth.user] # "ADMIN"
           THEN Return(p, Failure(call[p].op, "NotAuthorized", NoDetail))
           ELSE IF call[p].op = "update_book"
           THEN UpdateBook_Mutate(p, call[p].target, call[p].kwargs)
           ELSE DeleteUser_Mutate(p, call[p].target)
    /\ UNCHANGED <<stock_count, orders, order_items, next_order_id, next_item_id,
                   ncalls, users, price>>

\* books.price after the flush of an UpdateBook.
FlushPrice(s) ==
    [b \in Books |-> IF b \in DOMAIN s.new_price THEN s.new_price[b] ELSE price[b]]

\* UpdateBook.mutate, line 188: the UPDATE of the changed columns and the COMMIT.
UpdateBook_Commit(p) ==
    /\ pc[p] = "book_commit"
    /\ stock_count' = FlushBooks(session[p])
    /\ price' = FlushPrice(session[p])
    /\ pc' = [pc EXCEPT ![p] = "book_refresh"]
    /\ UNCHANGED <<orders, order_items, next_order_id, next_item_id,
                   call, session, result, ncalls, users>>

\* Lines 193-202: the commit raised.
UpdateBook_CommitRaises(p, error) ==
    /\ pc[p] = "book_commit"
    /\ Rollback(p, error)

\* Lines 189-191.
UpdateBook_Refresh(p) ==
    /\ pc[p] = "book_refresh"
    /\ Refresh(p)

\* Line 189 raises: except Exception, lines 198-202.
UpdateBook_RefreshRaises(p) ==
    /\ pc[p] = "book_refresh"
    /\ Rollback(p, "UnexpectedError")

\* DeleteUser.mutate, lines 214-217: the DELETEs by primary key of the loaded items,
\* the loaded orders and the user, and the COMMIT; the store refuses them when a row
\* is left that references a deleted one.
DeleteUser_Commit(p) ==
    /\ pc[p] = "user_commit"
    /\ LET s == session[p]
           us == [u \in DOMAIN users \ {s.user} |-> users[u]]
           os == [o \in DOMAIN orders \ s.orders_loaded |-> orders[o]]
           its == {r \in order_items :
                      \A l \in s.items_loaded : l.order_item_id # r.order_item_id}
       IN  /\ ForeignKeysHold(us, os, its)
           /\ users' = us
           /\ orders' = os
           /\ order_items' = its
    /\ Return(p, [op |-> "delete_user", outcome |-> "COMMITTED", order_id |-> 0,
                  order_items |-> {}, detail |-> NoDetail])
    /\ UNCHANGED <<stock_count, next_order_id, next_item_id, ncalls, price>>

\* Line 214 raises: nothing catches it, the session is closed with nothing written.
DeleteUser_CommitRaises(p, error) ==
    /\ pc[p] = "user_commit"
    /\ error \in StoreErrors
    /\ Return(p, Failure("delete_user", error, NoDetail))
    /\ UNCHANGED <<stock_count, orders, order_items, next_order_id, next_item_id,
                   ncalls, users, price>>

\* update_book next to the order resolvers: MaxCalls calls, any of them concurrent.
UpdateBook_Call(p, credential, book_id, kwargs) ==
    /\ Invoke(p)
    /\ Admin_Resolve(p, "update_book", credential, book_id, kwargs)

NextBook ==
    \E p \in Procs :
        \/ \E u \in Users, items \in GateItemLists : AddOrder_Call(p, u, items)
        \/ \E u \in Users, o \in OrderIds, items \in GateItemLists :
               UpdateOrder_Call(p, u, o, items)
        \/ Step(p)
        \/ \E c \in AdminCredentials, b \in BookIds, k \in UpdateBookKwargs :
               UpdateBook_Call(p, c, b, k)
        \/ AdminUser(p)
        \/ UpdateBook_Commit(p)
        \/ \E e \in StoreErrors : UpdateBook_CommitRaises(p, e)
        \/ UpdateBook_Refresh(p)
        \/ UpdateBook_RefreshRaises(p)

SpecBook == Init /\ [][NextBook]_vars

\* delete_user next to the order resolvers: up to SeqCalls calls, any of them
\* concurrent, on requests of one copy of one book.
InvokeUpTo(p) ==
    /\ pc[p] \in {"idle", "done"}
    /\ TotalCalls < SeqCalls
    /\ ncalls' = [ncalls EXCEPT ![p] = @ + 1]
    /\ UNCHANGED <<users, price>>

UserItemLists ==
    {items \in OrderItemLists :
        Len(items) <= 1 /\ \A i \in 1 .. Len(items) : items[i].quantity = 1}

User_Add(p, current_user, items) ==
    /\ InvokeUpTo(p)
    /\ AddOrder_Mutate(p, current_user, items)
    /\ UNCHANGED <<stock_count, orders, order_items, next_order_id, next_item_id>>

User_Update(p, current_user, order_id, items) ==
    /\ InvokeUpTo(p)
    /\ UpdateOrder_Mutate(p, current_user, order_id, items)
    /\ UNCHANGED <<stock_count, orders, order_items, next_order_id, next_item_id>>

DeleteUser_Call(p, credential, user_id) ==
    /\ InvokeUpTo(p)
    /\ Admin_Resolve(p, "delete_user", credential, user_id, EmptyMap)

NextUser ==
    \E p \in Procs :
        \/ \E u \in Users, items \in UserItemLists : User_Add(p, u, items)
        \/ \E u \in Users, o \in OrderIds, items \in UserItemLists :
               User_Update(p, u, o, items)
        \/ Step(p)
        \/ \E c \in Credentials, u \in Users \cup {"u9"} : DeleteUser_Call(p, c, u)
        \/ AdminUser(p)
        \/ DeleteUser_Commit(p)
        \/ \E e \in StoreErrors : DeleteUser_CommitRaises(p, e)

SpecUser == Init /\ [][NextUser]_vars

\* ------------------------------------------------------------------ vocabulary of the claims
\* The request names each of its book ids once.
DistinctBooks(items) ==
    \A i, j \in 1 .. Len(items) : items[i].book_id = items[j].book_id => i = j

\* The other invocation is not running and has never run.
Alone(p) == \A q \in Procs \ {p} : pc[q] = "idle" /\ ncalls[q] = 0

\* The sum of the quantities of a set of order_items rows.
RECURSIVE SumQuantity(_)
SumQuantity(rows) ==
    IF rows = {} THEN 0
    ELSE LET r == CHOOSE x \in rows : TRUE
         IN  r.quantity + SumQuantity(rows \ {r})

\* The rows of a set as (book_id, quantity) pairs.
Pairs(rows) == {[book_id |-> r.book_id, quantity |-> r.quantity] : r \in rows}

\* The entries of a request as (book_id, quantity) pairs.
RequestPairs(items) == {items[i] : i \in 1 .. Len(items)}

\* The errors a request itself can cause in a resolver.
RequestErrors == {"ValidationError", "BookNotFound", "InsufficientStock"}

\* ------------------------------------------------------------------ C1
\* C1: with stock RaceStock = 5 and two concurrent place_order calls of RaceQty = 3
\* each, once both calls have ended (and the store refused neither), exactly one has
\* COMMITTED, the other has failed with InsufficientStock, and the committed stock is
\* RaceStock - RaceQty = 2.
C1_ExactlyOneSucceeds ==
    (\A p \in Procs : pc[p] = "done" /\ result[p].outcome \notin StoreErrors)
        => /\ \E p, q \in Procs :
                  /\ p # q
                  /\ result[p].outcome = "COMMITTED"
                  /\ result[q].outcome = "InsufficientStock"
           /\ stock_count["b1"] = RaceStock - RaceQty
           /\ Cardinality(DOMAIN orders) = 1

\* ------------------------------------------------------------------ C2
\* C2: in every committed state, every book's stock_count is >= 0.
C2_StockNeverNegative == \A b \in Books : stock_count[b] >= 0

\* ------------------------------------------------------------------ C3
\* C3: a place_order call that fails on its request (invalid input, a book not found,
\* a quantity above the stock) has written nothing: the failure is raised by the
\* validation of the input or by the stock check, before the order is created, and no
\* step the call takes up to and including that check changes books, orders or
\* order_items.
C3_FailedAddLeavesStore ==
    [][\A p \in Procs :
          /\ (pc'[p] # pc[p] /\ pc[p] \in {"idle", "done", "add_validate"}
                 /\ (call'[p].op = "add" \/ result'[p].op = "add"))
                => Store' = Store
          /\ (result'[p] # result[p] /\ result'[p].op = "add"
                 /\ result'[p].outcome \in RequestErrors)
                => /\ pc[p] \in {"idle", "done", "add_validate"}
                   /\ session[p].new_order = FALSE
                   /\ session[p].added = <<>>
                   /\ Store' = Store]_vars

\* A place_order has failed on the second item of its request, for lack of stock,
\* after the first item had passed the check.
C3_Witness ==
    \E p \in Procs :
        /\ result[p].op = "add"
        /\ result[p].outcome = "InsufficientStock"
        /\ result[p].detail.book_id = "b2"
        /\ result[p].detail.requested > result[p].detail.available
        /\ Alone(p)
        /\ ncalls[p] = 1
        /\ Store = <<InitStock, EmptyMap, {}>>

\* ------------------------------------------------------------------ C5
\* C5: the place_order calls that commit never reserve more of a book than there was:
\* at every committed state the stock of b1 plus the quantities of the committed items
\* of b1 is the stock the scenario started with, and those quantities do not exceed it.
C5_NoLostUpdate ==
    LET reserved == SumQuantity({r \in order_items : r.book_id = "b1"})
    IN  /\ reserved <= RaceStock
        /\ stock_count["b1"] = RaceStock - reserved

\* ------------------------------------------------------------------ C6
\* Every item of the request names a loaded book that has at least the quantity.
AllItemsPass(items, loaded) ==
    \A i \in 1 .. Len(items) :
        /\ items[i].book_id \in DOMAIN loaded
        /\ loaded[items[i].book_id] >= items[i].quantity

\* C6: in place_order no stock_count is decremented, in the session or in the store,
\* before every item of the request has passed the existence and the stock check: up
\* to the creation of the items the loaded books are untouched, and a session whose
\* books differ from what it loaded belongs to a request all of whose items pass.
C6_CheckBeforeDecrement ==
    \A p \in Procs :
        call[p].op = "add" =>
            /\ pc[p] \in {"add_validate", "add_flush", "add_items"}
                  => /\ session[p].books_map = session[p].books_loaded
                     /\ session[p].added = <<>>
            /\ (session[p].books_map # session[p].books_loaded \/ session[p].added # <<>>)
                  => AllItemsPass(call[p].order_items, session[p].books_loaded)

\* A place_order of two books has passed the check and decremented both in its session.
C6_Witness ==
    \E p \in Procs :
        /\ pc[p] = "add_commit"
        /\ Len(call[p].order_items) = 2
        /\ \A b \in Books :
              /\ b \in DOMAIN session[p].books_map
              /\ session[p].books_map[b] < session[p].books_loaded[b]

\* ------------------------------------------------------------------ C4
\* The request is not empty, names distinct books that exist, and asks of each a
\* quantity > 0 that the committed stock covers.
GoodRequest(items) ==
    /\ Len(items) > 0
    /\ DistinctBooks(items)
    /\ \A i \in 1 .. Len(items) :
          /\ items[i].book_id \in Books
          /\ items[i].quantity > 0
          /\ items[i].quantity <= stock_count[items[i].book_id]

\* C4: a place_order call of an authenticated principal, with a good request and no
\* concurrent activity, reaches COMMITTED.  To get there the call has to get past the
\* decorator: once the principal is authenticated the resolver runs on the request,
\* the call does not end at the gate.
C4_AuthenticatedOrderProceeds ==
    [][\A p \in Procs :
          (/\ pc[p] = "gate"
           /\ pc'[p] # "gate"
           /\ call[p].op = "add"
           /\ GetAuthenticatedUser(call[p].credential).error = "ok"
           /\ GoodRequest(call[p].order_items)
           /\ \A q \in Procs \ {p} : pc[q] \in {"idle", "done"})
              => pc'[p] = "add_validate"]_vars

\* ------------------------------------------------------------------ C7
\* The errors update_order raises while it processes the items and the removals, or
\* when it writes them.
UpdateErrors == {"BookNotFound", "InsufficientStock"} \cup StoreErrors

\* C7: a failure of update_order in steps 4-5 leaves the committed store unchanged:
\* no step of the call before its commit writes to books, orders or order_items, and
\* the step in which the item loop, the removals or the commit fail writes nothing.
C7_FailedUpdateLeavesStore ==
    [][\A p \in Procs :
          /\ (pc'[p] # pc[p] /\ pc[p] \in {"upd_books", "upd_items", "upd_apply"})
                => Store' = Store
          /\ (pc[p] \in {"upd_apply", "upd_commit"} /\ pc'[p] = "done"
                 /\ result'[p].outcome \in UpdateErrors)
                => Store' = Store]_vars

\* An update_order has failed for lack of stock on an item that found less stock in
\* the session than is committed: an earlier item of the same request had been
\* adjusted in the session, and the store holds what it held.
C7_Witness ==
    \E p \in Procs :
        /\ result[p].op = "update"
        /\ result[p].outcome = "InsufficientStock"
        /\ result[p].detail.available < stock_count[result[p].detail.book_id]
        /\ Alone(p)

\* ------------------------------------------------------------------ C8
\* C8: when a successful update_order omits a book the order holds an item of, with
\* quantity q, its commit deletes the item and increases the book's stock_count by q.
C8_OmittedItemReleased ==
    [][\A p \in Procs :
          (pc[p] = "upd_commit" /\ pc'[p] = "upd_refresh") =>
              \A b \in DOMAIN session[p].existing_items
                       \ RequestedBookIds(call[p].order_items) :
                  /\ stock_count'[b] = stock_count[b] + session[p].existing_items[b].quantity
                  /\ \A r \in order_items' :
                        r.order_item_id # session[p].existing_items[b].order_item_id]_vars

\* ------------------------------------------------------------------ C9
\* C9: after a successful update_order whose request names distinct books, the order
\* holds exactly one item per requested book, with the requested quantity, and no
\* other item.
C9_FullReplace ==
    [][\A p \in Procs :
          (/\ pc[p] = "upd_refresh"
           /\ pc'[p] = "done"
           /\ result'[p].outcome = "COMMITTED"
           /\ DistinctBooks(call[p].order_items)
           /\ \A q \in Procs \ {p} : pc[q] \in {"idle", "done"})
              => /\ Pairs(result'[p].order_items) = RequestPairs(call[p].order_items)
                 /\ Cardinality(result'[p].order_items) = Len(call[p].order_items)
                 /\ result'[p].order_items = ItemsOfOrder(result'[p].order_id)]_vars

\* ------------------------------------------------------------------ C10
\* The quantity the request asks of book b, for a request that names b once.
NewQuantity(items, b) ==
    items[CHOOSE i \in 1 .. Len(items) : items[i].book_id = b].quantity

\* The request names b exactly once.
NamedOnce(items, b) ==
    Cardinality({i \in 1 .. Len(items) : items[i].book_id = b}) = 1

\* The quantity the session first loaded for the item it holds as the existing item of b.
LoadedQuantity(s, b) ==
    (CHOOSE r \in s.items_loaded :
        r.order_item_id = s.existing_items[b].order_item_id).quantity

\* C10: in update_order, for a book b the request names once and the order holds an
\* item of, with delta = new_quantity - existing_quantity and the stock the call
\* loaded: the item loop fails with InsufficientStock on b only if delta > 0 and the
\* stock < delta; it does not succeed when delta > 0 and the stock < delta; when it
\* succeeds the session holds the stock - delta and the new quantity; and the commit
\* writes them: the item's quantity becomes new_quantity and, nobody else having
\* written the book meanwhile, the committed stock_count changes by exactly -delta.
C10_DeltaCheck ==
    [][\A p \in Procs : \A b \in Books :
          /\ (/\ pc[p] = "upd_apply"
              /\ pc'[p] # "upd_apply"
              /\ b \in DOMAIN session[p].existing_items
              /\ b \in DOMAIN session[p].books_map
              /\ NamedOnce(call[p].order_items, b))
                => LET new_quantity == NewQuantity(call[p].order_items, b)
                       delta == new_quantity - session[p].existing_items[b].quantity
                       stock == session[p].books_map[b]
                   IN  /\ (pc'[p] = "done" /\ result'[p].outcome = "InsufficientStock"
                              /\ result'[p].detail.book_id = b)
                             => (delta > 0 /\ stock < delta)
                       /\ (delta > 0 /\ stock < delta) => pc'[p] = "done"
                       /\ delta <= 0 =>
                             ~(pc'[p] = "done" /\ result'[p].outcome = "InsufficientStock"
                                  /\ result'[p].detail.book_id = b)
                       /\ pc'[p] = "upd_commit"
                             => /\ session'[p].books_map[b] = stock - delta
                                /\ session'[p].existing_items[b].quantity = new_quantity
          /\ (/\ pc[p] = "upd_commit"
              /\ pc'[p] = "upd_refresh"
              /\ b \in DOMAIN session[p].existing_items
              /\ b \in DOMAIN session[p].books_map
              /\ NamedOnce(call[p].order_items, b))
                => LET new_quantity == NewQuantity(call[p].order_items, b)
                       delta == new_quantity - LoadedQuantity(session[p], b)
                       id == session[p].existing_items[b].order_item_id
                   IN  /\ stock_count[b] = session[p].books_loaded[b]
                             => stock_count'[b] = stock_count[b] - delta
                       /\ delta # 0 =>
                             \E r \in order_items' :
                                 r.order_item_id = id /\ r.quantity = new_quantity]_vars

\* An update_order raised the quantity of an item by a delta the loaded stock covers
\* although it does not cover the new quantity, and is about to commit the stock
\* minus the delta.
C10_Witness ==
    \E p \in Procs : \E b \in Books :
        /\ pc[p] = "upd_commit"
        /\ b \in DOMAIN session[p].existing_items
        /\ b \in DOMAIN session[p].books_map
        /\ NamedOnce(call[p].order_items, b)
        /\ LET new_quantity == session[p].existing_items[b].quantity
               delta == new_quantity - LoadedQuantity(session[p], b)
           IN  /\ delta > 0
               /\ session[p].books_loaded[b] >= delta
               /\ session[p].books_loaded[b] < new_quantity
               /\ session[p].books_map[b] = session[p].books_loaded[b] - delta

\* ------------------------------------------------------------------ C11
\* The pending inserts of a session for book b.
AddedFor(s, b) == {i \in 1 .. Len(s.added) : s.added[i].book_id = b}

\* C11: in update_order, for a book b the request names once and the order holds no
\* item of, with the stock the call loaded: the item loop fails with InsufficientStock
\* on b only if the stock < new_quantity, and does not succeed when the stock <
\* new_quantity; when it succeeds the session holds the stock - new_quantity and one
\* new item of b with new_quantity; and the commit writes them: one row of b with
\* new_quantity is inserted into the order and, nobody else having written the book
\* meanwhile, the committed stock_count decreases by exactly new_quantity.
C11_NewItemCheck ==
    [][\A p \in Procs : \A b \in Books :
          /\ (/\ pc[p] = "upd_apply"
              /\ pc'[p] # "upd_apply"
              /\ b \notin DOMAIN session[p].existing_items
              /\ b \in DOMAIN session[p].books_map
              /\ NamedOnce(call[p].order_items, b))
                => LET new_quantity == NewQuantity(call[p].order_items, b)
                       stock == session[p].books_map[b]
                   IN  /\ (pc'[p] = "done" /\ result'[p].outcome = "InsufficientStock"
                              /\ result'[p].detail.book_id = b)
                             => stock < new_quantity
                       /\ stock < new_quantity => pc'[p] = "done"
                       /\ pc'[p] = "upd_commit"
                             => /\ session'[p].books_map[b] = stock - new_quantity
                                /\ Cardinality(AddedFor(session'[p], b)) = 1
                                /\ \A i \in AddedFor(session'[p], b) :
                                      /\ session'[p].added[i].quantity = new_quantity
                                      /\ session'[p].added[i].order_id = call[p].order_id
          /\ (/\ pc[p] = "upd_commit"
              /\ pc'[p] = "upd_refresh"
              /\ b \notin DOMAIN session[p].existing_items
              /\ b \in DOMAIN session[p].books_map
              /\ NamedOnce(call[p].order_items, b))
                => LET new_quantity == NewQuantity(call[p].order_items, b)
                       inserted == {r \in order_items' \ order_items : r.book_id = b}
                   IN  /\ stock_count[b] = session[p].books_loaded[b]
                             => stock_count'[b] = stock_count[b] - new_quantity
                       /\ Cardinality(inserted) = 1
                       /\ \A r \in inserted :
                             /\ r.quantity = new_quantity
                             /\ r.order_id = call[p].order_id]_vars

\* An update_order is about to commit a new item of a book the order held no item of,
\* next to an item it held, and the stock of the book less the new quantity.
C11_Witness ==
    \E p \in Procs : \E b \in Books :
        /\ pc[p] = "upd_commit"
        /\ DOMAIN session[p].existing_items # {}
        /\ b \notin DOMAIN session[p].existing_items
        /\ b \in DOMAIN session[p].books_map
        /\ NamedOnce(call[p].order_items, b)
        /\ Cardinality(AddedFor(session[p], b)) = 1
        /\ session[p].books_map[b] =
              session[p].books_loaded[b] - NewQuantity(call[p].order_items, b)

\* ------------------------------------------------------------------ C12
\* C12: update_order is idempotent.  When update_order has committed with an item list
\* and the next call is update_order on the same order with the same list, the second
\* call leaves the stock counts and the items as the first left them: its commit
\* changes nothing in books, orders and order_items.
C12_UpdateIdempotent ==
    [][\A p, q \in Procs :
          (/\ p # q
           /\ result[q].op = "update"
           /\ result[q].outcome = "COMMITTED"
           /\ pc[p] = "upd_commit"
           /\ pc'[p] # "upd_commit"
           /\ call[p].order_id = result[q].order_id)
              => Store' = Store]_vars

\* ------------------------------------------------------------------ C13
\* C13: the scenario trace on a stock of TraceStock = 10.  place_order of 3 returns one
\* item of quantity 3 and leaves the stock at 7; update_order to 5 then leaves it at 5;
\* update_order to the empty list then removes the item and restores the stock to 10.
C13_ScenarioTrace ==
    [][\A p \in Procs :
          /\ (pc[p] = "add_refresh" /\ pc'[p] = "done"
                 /\ result'[p].outcome = "COMMITTED")
                => /\ Cardinality(result'[p].order_items) = 1
                   /\ \A r \in result'[p].order_items :
                         r.book_id = "b1" /\ r.quantity = TraceQty
                   /\ stock_count'["b1"] = TraceStock - TraceQty
          /\ (pc[p] = "upd_commit" /\ pc'[p] = "upd_refresh" /\ TotalCalls = 2)
                => stock_count'["b1"] = TraceStock - TraceRaised
          /\ (pc[p] = "upd_commit" /\ pc'[p] = "upd_refresh" /\ TotalCalls = 3
                 /\ stock_count["b1"] = TraceStock - TraceRaised)
                => /\ \A r \in order_items' : r.order_id # call[p].order_id
                   /\ stock_count'["b1"] = TraceStock]_vars

\* ------------------------------------------------------------------ C14
\* C14: update_order on an order that does not exist and on an order of another
\* principal end alike and change nothing.  An update_order gets past its first step
\* only on an existing order of its caller; the result NotFoundOrUnauthorized is one
\* and the same record whatever the reason, and the step that gives it leaves books,
\* orders and order_items as they were; and the items of an existing order change
\* only in the commit of an update_order on that order called by its owner.
C14_OwnerOnly ==
    [][/\ \A p \in Procs :
             /\ (pc[p] \in {"idle", "done"} /\ pc'[p] = "upd_books")
                   => /\ call'[p].order_id \in DOMAIN orders
                      /\ orders[call'[p].order_id].user_id = call'[p].current_user
             /\ (result'[p] # result[p] /\ result'[p].outcome = "NotFoundOrUnauthorized")
                   => /\ result'[p] = Failure("update", "NotFoundOrUnauthorized", NoDetail)
                      /\ Store' = Store
       /\ \A o \in DOMAIN orders :
             {r \in order_items' : r.order_id = o} # ItemsOfOrder(o)
                => \E p \in Procs :
                      /\ pc[p] = "upd_commit"
                      /\ pc'[p] = "upd_refresh"
                      /\ call[p].order_id = o
                      /\ call[p].current_user = orders[o].user_id]_vars

\* An update_order was refused with NotFoundOrUnauthorized while the store holds an
\* order with its items: the order of somebody else, or no order of that id.
C14_Witness ==
    \E p \in Procs :
        /\ result[p].op = "update"
        /\ result[p].outcome = "NotFoundOrUnauthorized"
        /\ \E o \in DOMAIN orders : ItemsOfOrder(o) # {}

\* ------------------------------------------------------------------ C15
\* C15: a place_order or update_order whose request names a book that does not exist
\* fails with BookNotFound for that book and writes nothing: the step that checks the
\* items of such a request ends the call with BookNotFound, names a book that is not
\* in books, and leaves books, orders and order_items as they were.
C15_MissingBookFails ==
    [][\A p \in Procs :
          (/\ pc[p] \in {"add_validate", "upd_apply"}
           /\ pc'[p] # pc[p]
           /\ ~(RequestedBookIds(call[p].order_items) \subseteq Books))
              => /\ pc'[p] = "done"
                 /\ result'[p].outcome = "BookNotFound"
                 /\ result'[p].detail.book_id \notin Books
                 /\ Store' = Store]_vars

\* The part of C15 the code keeps: such a call ends in an error and writes nothing.
C15_MissingBookWritesNothing ==
    [][\A p \in Procs :
          (/\ pc[p] \in {"add_validate", "upd_apply"}
           /\ pc'[p] # pc[p]
           /\ ~(RequestedBookIds(call[p].order_items) \subseteq Books))
              => /\ pc'[p] = "done"
                 /\ result'[p].outcome \in {"BookNotFound", "InsufficientStock"}
                 /\ Store' = Store]_vars

\* ------------------------------------------------------------------ C16
\* Every item of the request has a quantity > 0.
AllPositive(items) == \A i \in 1 .. Len(items) : items[i].quantity > 0

\* The requests with an item of quantity <= 0.
NonPositiveLists == {items \in OrderItemLists : ~AllPositive(items)}

\* C16: a request with an item of quantity <= 0 is rejected with a validation error
\* before the store is read or written.  A call returns at once only with
\* ValidationError or NotFoundOrUnauthorized; a request that opens a session, or that
\* is answered NotFoundOrUnauthorized, has only quantities > 0; and the step that
\* answers ValidationError is the call itself, with no session opened and books,
\* orders and order_items as they were.
C16_NonPositiveRejected ==
    [][\A p \in Procs :
          /\ pc'[p] \notin {"idle", "done", "gate"} => AllPositive(call'[p].order_items)
          /\ (ncalls'[p] # ncalls[p] /\ pc'[p] = "done")
                => result'[p].outcome \in {"ValidationError", "NotFoundOrUnauthorized"}
          /\ (ncalls'[p] # ncalls[p] /\ result'[p].outcome = "NotFoundOrUnauthorized")
                => \A items \in NonPositiveLists, u \in Users, o \in OrderIds :
                       ~UpdateOrder_Call(p, u, o, items)
          /\ (result'[p] # result[p] /\ result'[p].outcome = "ValidationError")
                => /\ ncalls'[p] # ncalls[p]
                   /\ session[p] = NoSession
                   /\ session'[p] = NoSession
                   /\ Store' = Store]_vars

\* An update_order was rejected with a validation error while the store holds an order.
C16_Witness ==
    \E p \in Procs :
        /\ result[p].op = "update"
        /\ result[p].outcome = "ValidationError"
        /\ DOMAIN orders # {}

\* ------------------------------------------------------------------ C17
\* C17: place_order with an empty item list is rejected in validation: no place_order
\* with an empty list gets past its validation, and none returns an order without
\* items.
C17_EmptyOrderRejected ==
    \A p \in Procs :
        /\ call[p].op = "add" => Len(call[p].order_items) > 0
        /\ (result[p].op = "add" /\ result[p].outcome = "COMMITTED")
              => result[p].order_items # {}

\* ------------------------------------------------------------------ C18
\* C18: a request that names a book more than once is rejected in validation: no
\* place_order and no update_order with such a list gets past its validation.
C18_DuplicateRejected ==
    \A p \in Procs :
        call[p].op \in {"add", "update"} => DistinctBooks(call[p].order_items)

\* ------------------------------------------------------------------ C19
\* C19: in every committed state each order has at most one item per book.
C19_OneItemPerBook ==
    \A r1, r2 \in order_items :
        (r1.order_id = r2.order_id /\ r1.book_id = r2.book_id) => r1 = r2

\* ------------------------------------------------------------------ C20
\* C20: stock conservation: in every committed state, for every book, stock_count plus
\* the quantities of the committed items of the book is the stock the book started
\* with.
C20_StockConservation ==
    \A b \in Books :
        stock_count[b] + SumQuantity({r \in order_items : r.book_id = b}) = InitStock[b]

\* ------------------------------------------------------------------ C21
\* C21: every order that place_order creates has status PENDING and belongs to the
\* principal of the call: a commit that adds a row to orders is the commit of a
\* place_order, and the row carries the caller's user_id and order_status PENDING.
C21_PendingAndOwned ==
    [][\A o \in DOMAIN orders' \ DOMAIN orders :
          \E p \in Procs :
              /\ pc[p] = "add_commit"
              /\ session[p].order_id = o
              /\ orders'[o].user_id = call[p].current_user
              /\ orders'[o].order_status = "PENDING"]_vars

\* The half of C21 about the owner: the row carries the caller's user_id.
C21_OwnedByCaller ==
    [][\A o \in DOMAIN orders' \ DOMAIN orders :
          \E p \in Procs :
              /\ pc[p] = "add_commit"
              /\ session[p].order_id = o
              /\ orders'[o].user_id = call[p].current_user]_vars

\* ------------------------------------------------------------------ C22
\* C22: every OrderItem that place_order or update_order inserts carries as
\* unit_price the price its book has when the row is inserted, and no later step (a
\* change of the book's price, an update_order that changes the quantity) changes the
\* unit_price of a row.
C22_UnitPriceSnapshot ==
    [][\A r \in order_items' :
          IF \E x \in order_items : x.order_item_id = r.order_item_id
          THEN \A x \in order_items :
                   x.order_item_id = r.order_item_id => r.unit_price = x.unit_price
          ELSE r.unit_price # NULL /\ r.unit_price = price[r.book_id]]_vars

\* The half of C22 about later changes: the unit_price of a committed row stays.
C22_UnitPriceKept ==
    [][\A r \in order_items', x \in order_items :
          x.order_item_id = r.order_item_id => r.unit_price = x.unit_price]_vars

\* ------------------------------------------------------------------ C25
\* C25: the stock_count of a book is changed by the commit of a place_order or an
\* update_order and by no other step: the commit of update_book leaves it as it is.
C25_StockOnlyByOrders ==
    [][\A b \in Books :
          stock_count'[b] # stock_count[b]
              => \E p \in Procs :
                     /\ pc[p] \in {"add_commit", "upd_commit"}
                     /\ pc'[p] # pc[p]]_vars

\* ------------------------------------------------------------------ C23
\* C23: a store failure inside the transaction of place_order or update_order (the
\* flush or the commit raises) is rolled back as a whole before the caller sees it:
\* the step in which the call fails leaves books, orders and order_items as they
\* were, no step of the transaction before it had written to them, nothing the
\* transaction held is in the store (not the new order, none of its items), and the
\* caller gets an error that carries no order.
C23_StoreFailureRollsBack ==
    [][\A p \in Procs :
          /\ (pc'[p] # pc[p] /\ pc[p] \in {"add_flush", "add_items"}) => Store' = Store
          /\ (pc[p] \in {"add_flush", "add_commit", "upd_commit"} /\ pc'[p] = "done")
                => /\ result'[p].outcome \in StoreErrors
                   /\ result'[p].order_id = 0
                   /\ result'[p].order_items = {}
                   /\ session'[p] = NoSession
                   /\ Store' = Store
                   /\ session[p].new_order
                         => /\ session[p].order_id \notin DOMAIN orders'
                            /\ ItemsOfOrder(session[p].order_id)' = {}]_vars

\* A place_order has failed at its commit, after the flush of its order and with its
\* items and stock changes pending, and the store holds no order.
C23_Witness ==
    \E p \in Procs :
        /\ result[p].op = "add"
        /\ result[p].outcome \in StoreErrors
        /\ Alone(p)
        /\ ncalls[p] = 1
        /\ next_order_id = 2
        /\ Store = <<InitStock, EmptyMap, {}>>

\* ------------------------------------------------------------------ C24
\* The step in which the decorator of p lets go of the call.
LeavesGate(p) == pc[p] = "gate" /\ pc'[p] # "gate"

\* C24: place_order and update_order run for a valid authenticated principal only,
\* and for one of any role: a call whose credential is missing, malformed, expired
\* or of no user ends at the gate with the error of the authentication and changes
\* nothing; a call with the credential of a user, customer or administrator, is
\* admitted, which is to say that the resolver is run on its arguments and what the
\* caller gets is what the resolver decides.
C24_GateAdmitsPrincipal ==
    [][\A p \in Procs :
          LeavesGate(p)
             => LET auth == GetAuthenticatedUser(call[p].credential)
                IN  /\ Store' = Store
                    /\ IF auth.error # "ok"
                       THEN /\ pc'[p] = "done"
                            /\ result'[p].outcome = auth.error
                            /\ session'[p] = NoSession
                       ELSE \/ pc'[p] \in {"add_validate", "upd_books"}
                            \/ /\ pc'[p] = "done"
                               /\ result'[p].outcome
                                     \in {"ValidationError", "NotFoundOrUnauthorized"}]_vars

\* The half of C24 about the credentials that are refused.
C24_InvalidCredentialRefused ==
    [][\A p \in Procs :
          (LeavesGate(p) /\ GetAuthenticatedUser(call[p].credential).error # "ok")
             => /\ pc'[p] = "done"
                /\ result'[p].outcome = GetAuthenticatedUser(call[p].credential).error
                /\ session'[p] = NoSession
                /\ Store' = Store]_vars

Stage(at) ==
    IF at \in {"add_validate", "upd_books", "upd_items", "upd_apply"} THEN "RESERVING"
    ELSE IF at \in {"add_flush", "add_items", "add_commit", "upd_commit"} THEN "PERSISTING"
    ELSE IF at \in {"add_refresh", "upd_refresh"} THEN "COMMITTED"
    ELSE "NONE"

\* How far a position is into its resolver.
Progress(at) ==
    IF at \in {"add_validate", "upd_books"} THEN 1
    ELSE IF at \in {"add_flush", "upd_items"} THEN 2
    ELSE IF at \in {"add_items", "upd_apply"} THEN 3
    ELSE IF at \in {"add_commit", "upd_commit"} THEN 4
    ELSE IF at \in {"add_refresh", "upd_refresh"} THEN 5
    ELSE IF at = "done" THEN 6
    ELSE 0

\* An invocation is a bounded sequence of steps through the states in their order:
\* a call enters at RESERVING or ends at once (the validation or the order lookup
\* failed), every further step moves the invocation forward, and books, orders and
\* order_items change in no step but the one that takes an invocation from
\* PERSISTING to COMMITTED.
InOrder(p) ==
    /\ (pc[p] \in {"idle", "done"} /\ pc'[p] # pc[p]) => Progress(pc'[p]) \in {1, 6}
    /\ (pc[p] \notin {"idle", "done"} /\ pc'[p] # pc[p])
          => Progress(pc'[p]) > Progress(pc[p])
    /\ (Stage(pc[p]) = "PERSISTING" /\ Stage(pc'[p]) # "PERSISTING")
          => (Stage(pc'[p]) = "COMMITTED" \/ pc'[p] = "done")
    /\ (Stage(pc[p]) = "RESERVING" /\ Stage(pc'[p]) # "RESERVING")
          => (Stage(pc'[p]) = "PERSISTING" \/ pc'[p] = "done")

StoreChangesAtCommit ==
    Store' # Store
       => \E p \in Procs : Stage(pc[p]) = "PERSISTING" /\ Stage(pc'[p]) = "COMMITTED"

\* C27: every invocation of place_order or update_order is a bounded sequence of steps
\* through VALIDATING, RESERVING and PERSISTING in that order that ends in exactly
\* one of COMMITTED and FAILED: the store changes only in the step that commits, and
\* the caller is given the order if and only if the invocation reached COMMITTED,
\* an error if and only if it did not.
C27_OneOutcome ==
    [][/\ StoreChangesAtCommit
       /\ \A p \in Procs :
             /\ InOrder(p)
             /\ (pc'[p] = "done" /\ pc[p] # "done")
                   => (result'[p].outcome = "COMMITTED" <=> Stage(pc[p]) = "COMMITTED")]_vars

\* The part of C27 about the order of the states and the place of the writes.
C27_StagesInOrder ==
    [][StoreChangesAtCommit /\ \A p \in Procs : InOrder(p)]_vars

\* ------------------------------------------------------------------ C28
\* C28: every committed OrderItem has a quantity above 0, and an item leaves an order
\* by being omitted, not by its quantity: every row the store holds after a step has
\* quantity > 0, and a row that a step removes is deleted by the commit of an
\* update_order whose request does not name the row's book.
C28_QuantityPositive ==
    [][/\ \A r \in order_items' : r.quantity > 0
       /\ \A r \in order_items :
             (\A x \in order_items' : x.order_item_id # r.order_item_id)
                => \E p \in Procs :
                       /\ pc[p] = "upd_commit"
                       /\ pc'[p] = "upd_refresh"
                       /\ r.order_item_id \in session[p].deleted
                       /\ r.book_id \notin RequestedBookIds(call[p].order_items)]_vars

\* An order placed with two items has been updated with a request that names one of
\* them: the other is gone, the one named is there with its quantity.
C28_Witness ==
    \E p \in Procs :
        /\ Alone(p)
        /\ ncalls[p] = 2
        /\ next_item_id = 3
        /\ result[p].op = "update"
        /\ result[p].outcome = "COMMITTED"
        /\ \E r \in order_items : order_items = {r} /\ result[p].order_items = {r}

\* ------------------------------------------------------------------ two updates of one order
\* u1 places an order of one copy of b1, and then calls update_order on it twice, the
\* two calls running as they come: each request keeps b1, with some quantity, and
\* adds one copy of b2.
UpdatesRequests ==
    {<<[book_id |-> "b1", quantity |-> q], [book_id |-> "b2", quantity |-> 1]>> :
        q \in 1 .. MaxQty}

Updates_Add(p) ==
    /\ TotalCalls = 0
    /\ InvokeUpTo(p)
    /\ AddOrder_Mutate(p, "u1", <<[book_id |-> "b1", quantity |-> 1]>>)
    /\ UNCHANGED <<stock_count, orders, order_items, next_order_id, next_item_id>>

Updates_Update(p, items) ==
    /\ TotalCalls > 0
    /\ \A q \in Procs : call[q].op # "add"
    /\ InvokeUpTo(p)
    /\ UpdateOrder_Mutate(p, "u1", 1, items)
    /\ UNCHANGED <<stock_count, orders, order_items, next_order_id, next_item_id>>

NextUpdates ==
    \E p \in Procs :
        \/ Updates_Add(p)
        \/ \E items \in UpdatesRequests : Updates_Update(p, items)
        \/ Step(p)

SpecUpdates == Init /\ [][NextUpdates]_vars

\* ------------------------------------------------------------------ C29
\* C29: two concurrent update_order calls of the owner on one order leave what some
\* serial execution of the two would leave: once both have returned, the order has
\* at most one item per book, and for every book stock_count plus the order's
\* quantity of it is what it was before the two calls (the stock the book started
\* with, the order being the only one).
C29_ConcurrentUpdatesSerial ==
    (TotalCalls = SeqCalls /\ Quiet)
       => /\ \A r1, r2 \in ItemsOfOrder(1) : r1.book_id = r2.book_id => r1 = r2
          /\ \A b \in Books :
                stock_count[b] + SumQuantity({r \in ItemsOfOrder(1) : r.book_id = b})
                    = InitStock[b]

\* ------------------------------------------------------------------ C30
\* The rows of order_items that do not belong to the order o, out of the rows its.
RowsOfOthers(its, o) == {r \in its : r.order_id # o}

\* The books whose stock_count the step changes.
BooksChanged == {b \in Books : stock_count'[b] # stock_count[b]}

\* The step is the commit of a place_order of p: the order is new and is the only
\* order added, the rows added are its rows, no row is changed or removed, and
\* the stock changes only for books the request names.
PlaceOrderFrame(p) ==
    LET o == session[p].order_id
    IN  /\ o \notin DOMAIN orders
        /\ DOMAIN orders' = DOMAIN orders \cup {o}
        /\ \A x \in DOMAIN orders : orders'[x] = orders[x]
        /\ order_items \subseteq order_items'
        /\ \A r \in order_items' \ order_items : r.order_id = o
        /\ BooksChanged \subseteq RequestedBookIds(call[p].order_items)

\* The step is the commit of an update_order of p: no order is added, removed or
\* changed (owner and status stay), the rows of the other orders stay as they are,
\* and the stock changes only for books the request names or the order has items of.
UpdateOrderFrame(p) ==
    LET o == session[p].order_id
    IN  /\ orders' = orders
        /\ RowsOfOthers(order_items', o) = RowsOfOthers(order_items, o)
        /\ BooksChanged \subseteq
              RequestedBookIds(call[p].order_items)
                 \cup {r.book_id : r \in order_items \ RowsOfOthers(order_items, o)}

\* C30: frame of the order operations.  A place_order that commits changes only the
\* stock_count of the books its request names and adds only its own order and items;
\* an update_order that commits changes only the items of the target order and the
\* stock_count of books in the union of its existing items and its request; neither
\* changes another order's items, another book's stock_count, or an order's owner
\* and status, and no other step of the two operations changes the store (the one
\* other step that does is the commit of a delete_user).
C30_Frame ==
    [][/\ \A p \in Procs :
             /\ (pc[p] = "add_commit" /\ pc'[p] = "add_refresh") => PlaceOrderFrame(p)
             /\ (pc[p] = "upd_commit" /\ pc'[p] = "upd_refresh") => UpdateOrderFrame(p)
       /\ Store' # Store
             => \E p \in Procs :
                   \/ pc[p] = "add_commit" /\ pc'[p] = "add_refresh"
                   \/ pc[p] = "upd_commit" /\ pc'[p] = "upd_refresh"
                   \/ pc[p] = "user_commit" /\ pc'[p] = "done"]_vars

\* An update_order has committed a new row of its order and a change of the stock
\* while another order has rows.
C30_Witness ==
    \E p \in Procs :
        /\ pc[p] = "upd_refresh"
        /\ session[p].books_map # session[p].books_loaded
        /\ session[p].added # <<>>
        /\ RowsOfOthers(order_items, session[p].order_id) # {}
====
